---- MODULE Spec2Model ----
(***************************************************************************)
(* A model of the chat view of TechGenie (ui ChatView component,           *)
(* src/unnamed/part_004): one view, the streams it opens with sendMessage,  *)
(* the frames handleMessage receives, the merges it defers with            *)
(* requestAnimationFrame, and the session store calls it issues.           *)
(*                                                                         *)
(* React state is modelled as committed at once; what a handler closes     *)
(* over (hasNavigated, propRequestId, chatTitle at the time sendMessage    *)
(* ran) is kept per stream, because handleMessage reads those and not the  *)
(* current state.  Refs (chatList, hasSavedSessionRef) are shared.         *)
(***************************************************************************)
EXTENDS Integers, Sequences, FiniteSets, TLC

VARIABLES
    propRequestId,      \* props.requestId: "" when the view has none
    fromHistory,        \* searchParams.get('from') === 'history'
    chatTitle,
    taskList,
    chatList,           \* chatList.current: entries are turns or a stream's turn object
    plan,
    showAction,
    loading,
    hasNavigated,
    hasInitialized,
    hasSavedSessionRef, \* hasSavedSessionRef.current
    streams,            \* one record per sendMessage call that opened a stream
    rafQueue,           \* callbacks registered with requestAnimationFrame
    calls,              \* createSession / updateSession calls issued so far
    store,              \* the session store collaborator
    loads,              \* loadChatSession / handleViewHistoryFiles runs in flight
    modalCount,         \* modal.info notices shown
    navigations         \* navigate() calls made by handleMessage

vars == <<propRequestId, fromHistory, chatTitle, taskList, chatList, plan,
          showAction, loading, hasNavigated, hasInitialized,
          hasSavedSessionRef, streams, rafQueue, calls, store, loads,
          modalCount, navigations>>

----------------------------------------------------------------------------
(* Bounds of the model. *)

\* number of sendMessage calls that open a stream
MaxSends == 2

\* number of frames delivered, over all streams
MaxFrames == 2

----------------------------------------------------------------------------
(* Values. *)

\* an absent (undefined) reqId / requestId: falsy like the empty string
NoReq == ""

\* getUniqId(): the s-th submission's request id, echoed by the server as reqId
ReqNames == <<"r1", "r2", "r3", "r4">>

getUniqId(s) == ReqNames[s]

\* the session a view opened by url shows
HistoryReq == "h0"

\* getSessionId(): constant for the view
sessionId == "sid"

\* RESULT_TYPES as it would be with 'result' left out of the closed set
RESULT_TYPES_NoResult == <<"task_summary">>

RESULT_TYPES == <<"task_summary", "result">>

Includes(seq, x) == \E i \in 1..Len(seq) : seq[i] = x

\* String.prototype.trim on the messages of the model
Trim(m) == IF m \in {"", " "} THEN "" ELSE m

Messages == {"", "hello"}

\* the text of responses: a sequence of pieces, <<>> the empty string
EmptyText == <<>>

----------------------------------------------------------------------------
(* Tasks, event payloads, frames. *)

Task(id, type, payload) ==
    [id |-> id, messageType |-> type, payload |-> payload, finish |-> FALSE]

NoData ==
    [present |-> FALSE, tasks |-> <<>>, thought |-> "", plan |-> "",
     response |-> EmptyText]

\* eventData {}: present and empty
DataEmpty == [NoData EXCEPT !.present = TRUE]

\* a tool call
DataTool ==
    [present |-> TRUE, tasks |-> <<Task(<<"t", 1>>, "tool_call", "v1")>>,
     thought |-> "", plan |-> "", response |-> EmptyText]

\* the same task id again with another payload, and a thought
DataToolAgain ==
    [present |-> TRUE, tasks |-> <<Task(<<"t", 1>>, "tool_call", "v2")>>,
     thought |-> "th", plan |-> "", response |-> EmptyText]

\* a result task, a plan and a piece of response text
DataResult ==
    [present |-> TRUE, tasks |-> <<Task(<<"t", 2>>, "result", "v1")>>,
     thought |-> "", plan |-> "p1", response |-> <<"a">>]

Statuses == {"", "success", "tokenUseUp"}

\* MESSAGE.Answer as handleMessage destructures it; responseAll is carried by
\* terminal frames only
FramesOf(s, datas) ==
    { f \in [packageType : {"heartbeat", "data"},
             finished : BOOLEAN,
             reqId : {NoReq, getUniqId(s)},
             status : Statuses,
             eventData : datas,
             responseAll : {EmptyText, <<"H">>}] :
        f.responseAll # EmptyText => f.finished }

----------------------------------------------------------------------------
(* Turns. *)

combineCurrentChat(message, requestId) ==
    [query |-> message, requestId |-> requestId, sessionId |-> sessionId,
     loading |-> TRUE, tasks |-> <<>>, thought |-> "", response |-> EmptyText,
     responseAll |-> EmptyText, plan |-> "", tip |-> TRUE]

\* UpsertTask as it would be if every task were appended
UpsertTask_Append(tasks, t) == Append(tasks, t)

\* upsert by id: replace in place if present, else append
UpsertTask(tasks, t) ==
    IF \E i \in 1..Len(tasks) : tasks[i].id = t.id
    THEN [i \in 1..Len(tasks) |-> IF tasks[i].id = t.id THEN t ELSE tasks[i]]
    ELSE Append(tasks, t)

RECURSIVE UpsertAll(_, _)
UpsertAll(tasks, new) ==
    IF new = <<>> THEN tasks
    ELSE UpsertAll(UpsertTask(tasks, Head(new)), Tail(new))

\* utils/chat combineData: the delta merger
combineData(eventData, chat) ==
    [chat EXCEPT
        !.tasks = UpsertAll(chat.tasks, eventData.tasks),
        !.thought = IF eventData.thought # "" THEN eventData.thought ELSE @,
        !.plan = IF eventData.plan # "" THEN eventData.plan ELSE @,
        !.response = @ \o eventData.response]

\* utils/chat handleTaskData: the task extractor
handleTaskData(chat) == [taskList |-> chat.tasks, plan |-> chat.plan]

\* the decision openAction takes: some task is not of a RESULT_TYPES type
openActionShows(tl) ==
    Len(SelectSeq(tl, LAMBDA t : ~Includes(RESULT_TYPES, t.messageType))) > 0

----------------------------------------------------------------------------
(* The chat list.  An entry is either a turn value (restored from the      *)
(* store) or the turn object of stream ref, which handleMessage mutates.   *)

NullTurn == combineCurrentChat("", NoReq)

RefEntry(s) == [ref |-> s, val |-> NullTurn]

ValEntry(turn) == [ref |-> 0, val |-> turn]

TurnOf(strs, e) == IF e.ref > 0 THEN strs[e.ref].currentChat ELSE e.val

\* the turns of a chat list as they are read (rendered, serialised)
TurnsOf(strs, cl) == [i \in 1..Len(cl) |-> TurnOf(strs, cl[i])]

\* chatList.current[0]?.query, undefined read as the empty title
FirstQuery(strs, cl) == IF Len(cl) = 0 THEN "" ELSE TurnOf(strs, cl[1]).query

\* AllButLast as it would be if the earlier turns were left out
AllButLast_Nothing(cl) == <<>>

\* chatList.current.slice(0, -1)
AllButLast(cl) == IF Len(cl) = 0 THEN <<>> ELSE SubSeq(cl, 1, Len(cl) - 1)

\* SpliceLast as it would be if the turn were added after the last entry
SpliceLast_Append(cl, e) == Append(cl, e)

\* newChatList.splice(newChatList.length - 1, 1, currentChat)
SpliceLast(cl, e) == Append(AllButLast(cl), e)

\* chatTitle || chatList.current[0]?.query, with the closure's chatTitle
TitleFor(closureTitle, strs, cl) ==
    IF closureTitle # "" THEN closureTitle ELSE FirstQuery(strs, cl)

SessionCall(op, reqId, turns, title) ==
    [op |-> op, reqId |-> reqId,
     data |-> [chatList |-> turns, sessionId |-> sessionId, chatTitle |-> title],
     done |-> FALSE]

NoSession == [exists |-> FALSE, chatList |-> <<>>, chatTitle |-> ""]

\* a session left in the store by an earlier visit: one finished turn
HistoryTurn ==
    [combineCurrentChat("old", HistoryReq) EXCEPT
        !.loading = FALSE, !.response = <<"o">>]

HistorySession ==
    [exists |-> TRUE, chatList |-> <<HistoryTurn>>, chatTitle |-> "old"]

SessionIds == {HistoryReq} \cup {ReqNames[i] : i \in 1..Len(ReqNames)}

----------------------------------------------------------------------------
(* The view as mounted.  Either Home rendered it for a first query (no      *)
(* requestId), or the router opened it at /<reqId>, from the history list   *)
(* (?from=history) or not, and the effect on propRequestId has started the  *)
(* load.                                                                    *)

LoadOf(reqId, hist) == [reqId |-> reqId, pc |-> "getSession", fromHistory |-> hist]

MountedWith(reqIds, froms, sessions) ==
    /\ propRequestId \in reqIds
    /\ fromHistory \in froms
    /\ chatTitle = ""
    /\ taskList = <<>>
    /\ chatList = <<>>
    /\ plan = ""
    /\ showAction = FALSE
    /\ loading = FALSE
    /\ hasNavigated = FALSE
    /\ hasInitialized = FALSE
    /\ hasSavedSessionRef = FALSE
    /\ streams = <<>>
    /\ rafQueue = <<>>
    /\ calls = <<>>
    /\ \E h \in sessions :
          store = [r \in SessionIds |-> IF r = HistoryReq THEN h ELSE NoSession]
    /\ loads = IF propRequestId = NoReq THEN <<>>
               ELSE <<LoadOf(propRequestId, fromHistory)>>
    /\ modalCount = 0
    /\ navigations = <<>>

\* the store holds the session of the earlier visit
Mounted(reqIds, froms) == MountedWith(reqIds, froms, {HistorySession})

\* opened for a first query, or at /<reqId>
Init == Mounted({NoReq, HistoryReq}, {FALSE})

\* opened from the history list, at /<reqId>?from=history
InitHistory == Mounted({HistoryReq}, {TRUE})

----------------------------------------------------------------------------
(* sendMessage. *)

\* inputInfoProp.message: Home passes the query until the url carries a reqId
InputInfoMessage == IF propRequestId = NoReq THEN "hello" ELSE ""

\* the stream sendMessage opens, with what its handlers close over
NewStream(message) ==
    [hasNavigated |-> hasNavigated,
     propRequestId |-> propRequestId,
     chatTitle |-> chatTitle,
     currentChat |-> combineCurrentChat(message, getUniqId(Len(streams) + 1)),
     delivered |-> 0,
     quotaEnded |-> FALSE,
     finishedSeen |-> FALSE,
     failed |-> FALSE,
     thrown |-> FALSE,
     closed |-> FALSE]

\* SendReturnsEarly as it would be without the early return
SendReturnsEarly_Never(message) == FALSE

\* the early return of sendMessage
SendReturnsEarly(message) == propRequestId # NoReq /\ Trim(message) = ""

\* TitleAfterSend as it would be if every query became the title
TitleAfterSend_Always(title, message) == message

\* if (!chatTitle) setChatTitle(message)
TitleAfterSend(title, message) == IF title = "" THEN message ELSE title

sendMessage(message) ==
    IF SendReturnsEarly(message)
    THEN UNCHANGED <<chatList, chatTitle, hasNavigated, hasSavedSessionRef,
                     loading, streams>>
    ELSE /\ Len(streams) < MaxSends
         /\ streams' = Append(streams, NewStream(message))
         /\ chatList' = Append(chatList, RefEntry(Len(streams) + 1))
         /\ chatTitle' = TitleAfterSend(chatTitle, message)
         /\ hasNavigated' = FALSE
         /\ hasSavedSessionRef' = FALSE
         /\ loading' = TRUE

\* the effect that sends the initial query
InitialMessageEffect ==
    /\ propRequestId = NoReq
    /\ Trim(InputInfoMessage) # ""
    /\ ~hasInitialized
    /\ hasInitialized' = TRUE
    /\ sendMessage(InputInfoMessage)
    /\ UNCHANGED <<propRequestId, fromHistory, taskList, plan, showAction,
                   rafQueue, calls, store, loads, modalCount, navigations>>

\* GeneralInput send: the input is disabled while loading
UserSend(message) ==
    /\ ~loading
    /\ (propRequestId = NoReq => hasInitialized)
    /\ sendMessage(message)
    /\ UNCHANGED <<propRequestId, fromHistory, taskList, plan, showAction,
                   hasInitialized, rafQueue, calls, store, loads, modalCount,
                   navigations>>

----------------------------------------------------------------------------
(* handleMessage: the synchronous part. *)

RECURSIVE SumDelivered(_)
SumDelivered(strs) ==
    IF strs = <<>> THEN 0 ELSE Head(strs).delivered + SumDelivered(Tail(strs))

\* the condition under which a frame saves the session and navigates
ShouldSaveSession(reqId, closureNavigated, closureRequestId, saved) ==
    reqId # NoReq /\ ~closureNavigated /\ closureRequestId = NoReq /\ ~saved

\* MarkSaved as it would be if the flag is left for the create call's resolution to set
MarkSaved_AfterResolve(saved, saves) == saved

\* hasSavedSessionRef.current after the check: marked in the same step
MarkSaved(saved, saves) == IF saves THEN TRUE ELSE saved

\* IsQuotaExhausted as it would be if the status is compared with another word
IsQuotaExhausted_OtherWord(status) == status = "quotaExhausted"

\* the frame ends the turn without being merged
IsQuotaExhausted(status) == status = "tokenUseUp"

\* IsMerged as it would be if no frame were handed on
IsMerged_Never(packageType) == FALSE

\* the frame's merge is handed to requestAnimationFrame
IsMerged(packageType) == packageType # "heartbeat"

\* the callback requestAnimationFrame keeps, with what was true of its stream
\* when the frame arrived (late: after a quota-exhausted frame; stale: after a
\* newer sendMessage)
Callback(s, f) ==
    [s |-> s, f |-> f, late |-> streams[s].quotaEnded, stale |-> s < Len(streams)]

handleMessage(s, f) ==
    LET closure == streams[s]
        saves == ShouldSaveSession(f.reqId, closure.hasNavigated,
                                   closure.propRequestId, hasSavedSessionRef)
        quota == IsQuotaExhausted(f.status)
        chat == IF quota THEN [closure.currentChat EXCEPT !.loading = FALSE]
                ELSE closure.currentChat
        strs == [streams EXCEPT
                    ![s].currentChat = chat,
                    ![s].delivered = @ + 1,
                    ![s].quotaEnded = @ \/ quota,
                    ![s].finishedSeen = @ \/ (f.finished /\ f.packageType # "heartbeat")]
    IN  /\ streams' = strs
        /\ hasSavedSessionRef' = MarkSaved(hasSavedSessionRef, saves)
        /\ hasNavigated' = (hasNavigated \/ saves)
        /\ calls' = IF saves
                    THEN Append(calls, SessionCall("create", f.reqId,
                                    TurnsOf(strs, chatList),
                                    TitleFor(closure.chatTitle, strs, chatList)))
                    ELSE calls
        /\ navigations' = IF saves THEN Append(navigations, f.reqId) ELSE navigations
        /\ propRequestId' = IF saves THEN f.reqId ELSE propRequestId
        /\ fromHistory' = IF saves THEN FALSE ELSE fromHistory
        /\ loads' = IF saves /\ f.reqId # propRequestId
                    THEN Append(loads, LoadOf(f.reqId, FALSE)) ELSE loads
        /\ IF quota
           THEN /\ modalCount' = modalCount + 1
                /\ loading' = FALSE
                /\ taskList' = handleTaskData(closure.currentChat).taskList
                /\ UNCHANGED rafQueue
           ELSE /\ rafQueue' = IF IsMerged(f.packageType)
                               THEN Append(rafQueue, Callback(s, f)) ELSE rafQueue
                /\ UNCHANGED <<modalCount, loading, taskList>>
        /\ UNCHANGED <<chatTitle, chatList, plan, showAction, hasInitialized, store>>

\* the stream client delivers one frame of stream s
Deliver(s, f) ==
    /\ SumDelivered(streams) < MaxFrames
    /\ ~streams[s].failed
    /\ ~streams[s].closed
    /\ handleMessage(s, f)

----------------------------------------------------------------------------
(* handleMessage: the merge deferred with requestAnimationFrame. *)

\* ShouldUpdateSession as it would be if every finished frame updated
ShouldUpdateSession_Always(status, reqId, responseAll) == TRUE

\* the condition under which a finished frame updates the stored session
ShouldUpdateSession(status, reqId, responseAll) ==
    status = "success" /\ reqId # NoReq /\ responseAll # EmptyText

openAction(show, tl) == IF openActionShows(tl) THEN TRUE ELSE show

\* what the callbacks of one animation frame read and write
ViewState ==
    [streams |-> streams, taskList |-> taskList, plan |-> plan,
     showAction |-> showAction, loading |-> loading, chatList |-> chatList,
     calls |-> calls]

RunCallback(st, cb) ==
    LET s == cb.s
        f == cb.f
        closure == st.streams[s]
        merged == combineData(f.eventData, closure.currentChat)
        taskData == handleTaskData(merged)
        updates == f.finished /\ ShouldUpdateSession(f.status, f.reqId, f.responseAll)
        ended == IF f.finished THEN [merged EXCEPT !.loading = FALSE] ELSE merged
        chat == IF updates THEN [ended EXCEPT !.response = f.responseAll] ELSE ended
        strs == [st.streams EXCEPT ![s].currentChat = chat]
    IN  IF ~f.eventData.present THEN st
        ELSE [st EXCEPT
                !.streams = strs,
                !.taskList = taskData.taskList,
                !.plan = taskData.plan,
                !.showAction = openAction(@, taskData.taskList),
                !.loading = IF f.finished THEN FALSE ELSE @,
                !.calls = IF updates
                          THEN Append(@, SessionCall("update", f.reqId,
                                   TurnsOf(strs, Append(AllButLast(st.chatList), RefEntry(s))),
                                   TitleFor(closure.chatTitle, strs, st.chatList)))
                          ELSE @,
                !.chatList = SpliceLast(@, RefEntry(s))]

RECURSIVE RunCallbacks(_, _)
RunCallbacks(st, queue) ==
    IF queue = <<>> THEN st
    ELSE RunCallbacks(RunCallback(st, Head(queue)), Tail(queue))

\* one animation frame: the registered callbacks run in registration order
AnimationFrame ==
    /\ rafQueue # <<>>
    /\ LET st == RunCallbacks(ViewState, rafQueue)
       IN  /\ streams' = st.streams
           /\ taskList' = st.taskList
           /\ plan' = st.plan
           /\ showAction' = st.showAction
           /\ loading' = st.loading
           /\ chatList' = st.chatList
           /\ calls' = st.calls
    /\ rafQueue' = <<>>
    /\ UNCHANGED <<propRequestId, fromHistory, chatTitle, hasNavigated,
                   hasInitialized, hasSavedSessionRef, store, loads, modalCount,
                   navigations>>

----------------------------------------------------------------------------
(* The session store answers createSession / updateSession.  saveChatSession *)
(* and updateChatSession only log the outcome.                              *)

StoredSession(data) ==
    [exists |-> TRUE, chatList |-> data.chatList, chatTitle |-> data.chatTitle]

\* create stores a new session and conflicts on an existing one; update
\* overwrites an existing one; a call that fails stores nothing
StoreAfter(st, call, ok) ==
    IF ok /\ (st[call.reqId].exists <=> call.op = "update")
    THEN [st EXCEPT ![call.reqId] = StoredSession(call.data)]
    ELSE st

ResolveCall(i, ok) ==
    /\ i \in 1..Len(calls)
    /\ ~calls[i].done
    /\ calls' = [calls EXCEPT ![i].done = TRUE]
    /\ store' = StoreAfter(store, calls[i], ok)
    /\ UNCHANGED <<propRequestId, fromHistory, chatTitle, taskList, chatList,
                   plan, showAction, loading, hasNavigated, hasInitialized,
                   hasSavedSessionRef, streams, rafQueue, loads, modalCount,
                   navigations>>

----------------------------------------------------------------------------
(* loadChatSession and handleViewHistoryFiles. *)

RemoveAt(seq, i) == SubSeq(seq, 1, i - 1) \o SubSeq(seq, i + 1, Len(seq))

\* OrText as it would be if the second text were never taken
OrText_First(a, b) == a

\* a || b on texts
OrText(a, b) == IF a # EmptyText THEN a ELSE b

\* loadChatSession's map over the saved chat list
RestoreTurn(chat) ==
    [chat EXCEPT !.loading = FALSE, !.tip = FALSE,
                 !.response = OrText(chat.response, OrText(chat.responseAll, EmptyText))]

\* handleViewHistoryFiles' map over the saved chat list
RestoreHistoryTurn(chat) ==
    [chat EXCEPT !.loading = FALSE, !.tip = FALSE,
                 !.response = OrText(chat.response, OrText(chat.responseAll, chat.response))]

RestoredList(saved) == [i \in 1..Len(saved) |-> ValEntry(RestoreTurn(saved[i]))]

RestoredHistoryList(saved) ==
    [i \in 1..Len(saved) |-> ValEntry(RestoreHistoryTurn(saved[i]))]

\* the results fileApi.getFileList may return
FileLists == {<<>>, <<"f1">>, <<"f1", "f2">>}

\* FileTask as it would be if the files were numbered from 1
FileTask_IndexFromOne(reqId, index, file) ==
    [id |-> <<reqId, index + 1>>, messageType |-> "file", payload |-> file,
     finish |-> TRUE]

\* the task handleViewHistoryFiles makes of the file at index (from 0)
FileTask(reqId, index, file) ==
    [id |-> <<reqId, index>>, messageType |-> "file", payload |-> file, finish |-> TRUE]

FileTasks(reqId, files) ==
    [i \in 1..Len(files) |-> FileTask(reqId, i - 1, files[i])]

\* RequestsFileList as it would be if the files were listed after every load
RequestsFileList_Always(found, hist) == TRUE

\* loadChatSession goes on to fileApi.getFileList: inside the success branch,
\* when the view was opened from the history list
RequestsFileList(found, hist) == found /\ hist

\* sessionApi.getSession resolves in loadChatSession
LoadGetSession(i, ok) ==
    /\ i \in 1..Len(loads)
    /\ loads[i].pc = "getSession"
    /\ LET ld == loads[i]
           saved == store[ld.reqId]
           found == ok /\ saved.exists
       IN  /\ chatList' = IF found THEN RestoredList(saved.chatList) ELSE chatList
           /\ chatTitle' = IF found /\ saved.chatTitle # "" THEN saved.chatTitle
                           ELSE chatTitle
           /\ loads' = IF RequestsFileList(found, ld.fromHistory)
                       THEN [loads EXCEPT ![i].pc = "getFileList"]
                       ELSE RemoveAt(loads, i)
    /\ UNCHANGED <<propRequestId, fromHistory, taskList, plan, showAction,
                   loading, hasNavigated, hasInitialized, hasSavedSessionRef,
                   streams, rafQueue, calls, store, modalCount, navigations>>

\* fileApi.getFileList resolves with files: handleViewHistoryFiles starts and
\* clears the task list before it awaits getSession
LoadFilesFound(i, files) ==
    /\ i \in 1..Len(loads)
    /\ loads[i].pc = "getFileList"
    /\ files # <<>>
    /\ taskList' = <<>>
    /\ loads' = [loads EXCEPT ![i] = [reqId |-> @.reqId, pc |-> "viewFiles",
                                      fromHistory |-> @.fromHistory, files |-> files]]
    /\ UNCHANGED <<propRequestId, fromHistory, chatTitle, chatList, plan,
                   showAction, loading, hasNavigated, hasInitialized,
                   hasSavedSessionRef, streams, rafQueue, calls, store,
                   modalCount, navigations>>

\* fileApi.getFileList resolves with no files, or rejects
LoadNoFiles(i) ==
    /\ i \in 1..Len(loads)
    /\ loads[i].pc = "getFileList"
    /\ taskList' = <<>>
    /\ showAction' = FALSE
    /\ loads' = RemoveAt(loads, i)
    /\ UNCHANGED <<propRequestId, fromHistory, chatTitle, chatList, plan,
                   loading, hasNavigated, hasInitialized, hasSavedSessionRef,
                   streams, rafQueue, calls, store, modalCount, navigations>>

\* sessionApi.getSession resolves in handleViewHistoryFiles
ViewHistoryFiles(i, ok) ==
    /\ i \in 1..Len(loads)
    /\ loads[i].pc = "viewFiles"
    /\ LET ld == loads[i]
           saved == store[ld.reqId]
           found == ok /\ saved.exists
       IN  /\ chatList' = IF found THEN RestoredHistoryList(saved.chatList) ELSE chatList
           /\ chatTitle' = IF found /\ saved.chatTitle # "" THEN saved.chatTitle
                           ELSE chatTitle
           /\ taskList' = FileTasks(ld.reqId, ld.files)
    /\ showAction' = TRUE
    /\ loads' = RemoveAt(loads, i)
    /\ UNCHANGED <<propRequestId, fromHistory, plan, loading, hasNavigated,
                   hasInitialized, hasSavedSessionRef, streams, rafQueue, calls,
                   store, modalCount, navigations>>

----------------------------------------------------------------------------
(* The stream fails: the stream client reports the failure once, through   *)
(* the error callback, and delivers nothing more on that stream.           *)

\* handleError: throw error
handleError(s) ==
    /\ streams' = [streams EXCEPT ![s].failed = TRUE, ![s].thrown = TRUE]
    /\ UNCHANGED <<propRequestId, fromHistory, chatTitle, taskList, chatList,
                   plan, showAction, loading, hasNavigated, hasInitialized,
                   hasSavedSessionRef, rafQueue, calls, store, loads,
                   modalCount, navigations>>

\* a transport failure of stream s, opening it or reading from it
StreamError(s) ==
    /\ ~streams[s].failed
    /\ ~streams[s].closed
    /\ handleError(s)

\* handleClose: console.log only
handleClose(s) ==
    /\ streams' = [streams EXCEPT ![s].closed = TRUE]
    /\ UNCHANGED <<propRequestId, fromHistory, chatTitle, taskList, chatList,
                   plan, showAction, loading, hasNavigated, hasInitialized,
                   hasSavedSessionRef, rafQueue, calls, store, loads,
                   modalCount, navigations>>

\* the server closes stream s, after a terminal frame or without one
StreamClose(s) ==
    /\ ~streams[s].failed
    /\ ~streams[s].closed
    /\ handleClose(s)

----------------------------------------------------------------------------
(* The workspace panel. *)

\* ActionView onClose: changeActionStatus(false)
changeActionStatus(status) ==
    /\ showAction # status
    /\ showAction' = status
    /\ UNCHANGED <<propRequestId, fromHistory, chatTitle, taskList, chatList,
                   plan, loading, hasNavigated, hasInitialized,
                   hasSavedSessionRef, streams, rafQueue, calls, store, loads,
                   modalCount, navigations>>

----------------------------------------------------------------------------
(* The specification. *)

\* the payloads the frames of the main specification carry
MainDatas == {NoData, DataTool, DataResult}

Next ==
    \/ InitialMessageEffect
    \/ \E m \in Messages : UserSend(m)
    \/ \E s \in 1..Len(streams) : \E f \in FramesOf(s, MainDatas) : Deliver(s, f)
    \/ AnimationFrame
    \/ \E i \in 1..Len(calls) : \E ok \in BOOLEAN : ResolveCall(i, ok)
    \/ \E i \in 1..Len(loads) : \E ok \in BOOLEAN : LoadGetSession(i, ok)

Spec == Init /\ [][Next]_vars

\* a view opened from the history list: the file listing follows the load
NextHistory ==
    \/ \E m \in Messages : UserSend(m)
    \/ \E s \in 1..Len(streams) : \E f \in FramesOf(s, MainDatas) : Deliver(s, f)
    \/ AnimationFrame
    \/ \E i \in 1..Len(calls) : \E ok \in BOOLEAN : ResolveCall(i, ok)
    \/ \E i \in 1..Len(loads) : \E ok \in BOOLEAN : LoadGetSession(i, ok)
    \/ \E i \in 1..Len(loads) : \E files \in FileLists : LoadFilesFound(i, files)
    \/ \E i \in 1..Len(loads) : LoadNoFiles(i)
    \/ \E i \in 1..Len(loads) : \E ok \in BOOLEAN : ViewHistoryFiles(i, ok)
    \/ changeActionStatus(FALSE)

SpecHistory == InitHistory /\ [][NextHistory]_vars


\* one stream whose data frames each carry one task, for the workspace gate
DataSummary ==
    [present |-> TRUE, tasks |-> <<Task(<<"t", 3>>, "task_summary", "v1")>>,
     thought |-> "", plan |-> "", response |-> EmptyText]

DataFile ==
    [present |-> TRUE, tasks |-> <<Task(<<"t", 4>>, "file", "v1")>>,
     thought |-> "", plan |-> "", response |-> EmptyText]

GateDatas == {DataTool, DataResult, DataSummary, DataFile}

GateFrames(s) ==
    { f \in FramesOf(s, GateDatas) :
        f.packageType = "data" /\ f.status = "" /\ f.reqId = NoReq }

InitGate == Mounted({NoReq}, {FALSE})

NextGate ==
    \/ InitialMessageEffect
    \/ \E s \in 1..Len(streams) : \E f \in GateFrames(s) : Deliver(s, f)
    \/ AnimationFrame

SpecGate == InitGate /\ [][NextGate]_vars

\* one stream whose frames carry no reqId and no status, for the merge
DataPair ==
    [present |-> TRUE,
     tasks |-> <<Task(<<"t", 1>>, "tool_call", "v1"), Task(<<"t", 2>>, "result", "v1")>>,
     thought |-> "", plan |-> "", response |-> EmptyText]

MergeDatas == {NoData, DataEmpty, DataTool, DataToolAgain, DataResult, DataPair}

MergeFrames(s) ==
    { f \in FramesOf(s, MergeDatas) : f.status = "" /\ f.reqId = NoReq }

NextMerge ==
    \/ InitialMessageEffect
    \/ \E s \in 1..Len(streams) : \E f \in MergeFrames(s) : Deliver(s, f)
    \/ AnimationFrame

SpecMerge == InitGate /\ [][NextMerge]_vars

\* a view opened at /<reqId>, from the history list or not, on a store that
\* holds no session for it, the session of the earlier visit, or a session
\* without a title whose turns were stored with and without text
TurnOnlyAll ==
    [combineCurrentChat("old", HistoryReq) EXCEPT !.responseAll = <<"O">>]

TurnNoText == combineCurrentChat("old", HistoryReq)

UntitledSession ==
    [exists |-> TRUE, chatList |-> <<HistoryTurn, TurnOnlyAll, TurnNoText>>,
     chatTitle |-> ""]

RestoreSessions == {NoSession, HistorySession, UntitledSession}

InitRestore == MountedWith({HistoryReq}, BOOLEAN, RestoreSessions)

RestoreFrames(s) ==
    { f \in FramesOf(s, MainDatas) :
        f.packageType = "data" /\ f.status = "" /\ f.reqId = NoReq }

NextRestore ==
    \/ \E m \in Messages : UserSend(m)
    \/ \E s \in 1..Len(streams) : \E f \in RestoreFrames(s) : Deliver(s, f)
    \/ AnimationFrame
    \/ \E i \in 1..Len(loads) : \E ok \in BOOLEAN : LoadGetSession(i, ok)
    \/ \E i \in 1..Len(loads) : \E files \in FileLists : LoadFilesFound(i, files)
    \/ \E i \in 1..Len(loads) : LoadNoFiles(i)
    \/ \E i \in 1..Len(loads) : \E ok \in BOOLEAN : ViewHistoryFiles(i, ok)

SpecRestore == InitRestore /\ [][NextRestore]_vars

\* queries of every kind, the empty and the blank one included, sent in a
\* view opened for a first query or at /<reqId>
SendMessages == {"", " ", "hello"}

SendDatas == {NoData, DataTool}

NextSend ==
    \/ InitialMessageEffect
    \/ \E m \in SendMessages : UserSend(m)
    \/ \E s \in 1..Len(streams) : \E f \in FramesOf(s, SendDatas) : Deliver(s, f)
    \/ AnimationFrame
    \/ \E i \in 1..Len(loads) : \E ok \in BOOLEAN : LoadGetSession(i, ok)

SpecSend == Init /\ [][NextSend]_vars

\* streams that may fail or be closed
NextError ==
    \/ InitialMessageEffect
    \/ \E m \in Messages : UserSend(m)
    \/ \E s \in 1..Len(streams) : \E f \in FramesOf(s, MainDatas) : Deliver(s, f)
    \/ AnimationFrame
    \/ \E s \in 1..Len(streams) : StreamError(s)
    \/ \E s \in 1..Len(streams) : StreamClose(s)

SpecError == Init /\ [][NextError]_vars

----------------------------------------------------------------------------
(* Properties. *)

CallCount(op, reqId) ==
    Cardinality({i \in 1..Len(calls) : calls[i].op = op /\ calls[i].reqId = reqId})

\* what a merge changes of a turn
TurnContent(chat) == <<chat.tasks, chat.thought, chat.plan, chat.response>>

\* the last turn of the chat list as rendered
LastTurn(strs, cl) == IF Len(cl) = 0 THEN NullTurn ELSE TurnOf(strs, cl[Len(cl)])

\* some frame of the set is delivered to stream s in this step
Delivers(s, frames) == \E f \in frames : Deliver(s, f)

\* the step is an animation frame running the registered callbacks
Flushes == rafQueue # <<>> /\ rafQueue' = <<>>

AllFrames(s) == FramesOf(s, MainDatas)

\* C1: while a submission is the latest one, at most one createSession call
\* has been made for its reqId, however many frames carried it, and once the
\* call is made the saved flag is set (it is set in the step of the check).
C1_CreateOncePerSubmission ==
    Len(streams) > 0 =>
        LET r == getUniqId(Len(streams))
        IN  /\ CallCount("create", r) <= 1
            /\ CallCount("create", r) = 1 => hasSavedSessionRef

\* two frames carrying the reqId have arrived and wait for the animation
\* frame while the one create call is still unresolved
C1_Witness ==
    /\ Len(streams) = 1
    /\ Len(rafQueue) = 2
    /\ \A k \in 1..2 : rafQueue[k].f.reqId = getUniqId(1)
    /\ \E i \in 1..Len(calls) :
          calls[i].op = "create" /\ calls[i].reqId = getUniqId(1) /\ ~calls[i].done
    /\ CallCount("create", getUniqId(1)) = 1

\* C2: after any frame carrying a turn id has been handled, exactly one
\* createSession call has been made for that id.
C2_ExactlyOneCreatePerTurnId ==
    [][\A s \in 1..Len(streams) :
          Delivers(s, {f \in AllFrames(s) : f.reqId # NoReq})
              => CallCount("create", getUniqId(s))' = 1]_vars

\* the callbacks of the queue that stand for a terminal frame (finished, with
\* responseAll) carrying reqId
TerminalCallbacks(reqId) ==
    {k \in 1..Len(rafQueue) :
        /\ rafQueue[k].f.finished
        /\ rafQueue[k].f.responseAll # EmptyText
        /\ rafQueue[k].f.reqId = reqId}

\* C3: when the merges run, every non-heartbeat frame with finished and a
\* non-empty responseAll has caused an updateSession call for its reqId.
C3_TerminalFrameUpdates ==
    [][Flushes =>
          \A s \in 1..Len(streams) :
              CallCount("update", getUniqId(s))' >=
                  CallCount("update", getUniqId(s))
                      + Cardinality(TerminalCallbacks(getUniqId(s)))]_vars

\* C4: when the merge of a terminal frame carrying responseAll has run (it
\* is the last callback of the animation frame), its turn's response is
\* responseAll.
C4_ResponseAllOverwrites ==
    [][Flushes =>
          LET last == rafQueue[Len(rafQueue)]
          IN  (last.f.finished /\ last.f.responseAll # EmptyText)
                  => streams'[last.s].currentChat.response = last.f.responseAll]_vars

HasCallback(s) == \E k \in 1..Len(rafQueue) : rafQueue[k].s = s

\* C5: once its frames are merged, a turn has stopped loading if a
\* non-heartbeat frame with finished was delivered for it, and only if one
\* was or a quota-exhausted frame ended it.
C5_FinishedIffCompletionFrame ==
    \A s \in 1..Len(streams) :
        ~HasCallback(s) =>
            /\ streams[s].finishedSeen => ~streams[s].currentChat.loading
            /\ ~streams[s].currentChat.loading
                  => (streams[s].finishedSeen \/ streams[s].quotaEnded)

\* C6: a step that delivers a heartbeat frame changes neither the task list,
\* nor the plan, nor any turn of the chat list (its response included).
C6_HeartbeatChangesNothing ==
    [][\A s \in 1..Len(streams) :
          Delivers(s, {f \in AllFrames(s) : f.packageType = "heartbeat"})
              => /\ taskList' = taskList
                 /\ plan' = plan
                 /\ TurnsOf(streams', chatList') = TurnsOf(streams, chatList)]_vars

\* C7: the step that delivers a frame with status tokenUseUp ends the turn
\* (turn and view stop loading), shows the notice, and merges nothing of the
\* frame: the turn's content is unchanged and no merge is registered.
C7_QuotaEndsTurnUnmerged ==
    [][\A s \in 1..Len(streams) :
          Delivers(s, {f \in AllFrames(s) : f.status = "tokenUseUp"})
              => /\ ~streams'[s].currentChat.loading
                 /\ ~loading'
                 /\ modalCount' = modalCount + 1
                 /\ TurnContent(streams'[s].currentChat)
                        = TurnContent(streams[s].currentChat)
                 /\ rafQueue' = rafQueue]_vars

\* a loading turn with a pending merge was ended by a quota-exhausted frame
C7_Witness ==
    \E s \in 1..Len(streams) :
        /\ streams[s].quotaEnded
        /\ ~streams[s].currentChat.loading
        /\ ~loading
        /\ modalCount = 1
        /\ streams[s].currentChat.tasks = <<>>
        /\ HasCallback(s)

\* the updateSession calls made so far
UpdateCalls == SelectSeq(calls, LAMBDA c : c.op = "update")

\* C8: once a quota-exhausted frame has ended a turn, a frame delivered
\* later on its stream changes nothing: neither in the step that delivers it
\* nor when its merge runs is a turn, the task list or the chat list changed
\* or an updateSession call made.
C8_FramesAfterQuotaIgnored ==
    [][/\ \A s \in 1..Len(streams) :
             (streams[s].quotaEnded /\ Delivers(s, AllFrames(s)))
                 => /\ taskList' = taskList
                    /\ TurnsOf(streams', chatList') = TurnsOf(streams, chatList)
                    /\ UpdateCalls' = UpdateCalls
       /\ (Flushes /\ \A k \in 1..Len(rafQueue) : rafQueue[k].late)
             => /\ \A s \in 1..Len(streams) :
                      TurnContent(streams'[s].currentChat)
                          = TurnContent(streams[s].currentChat)
                /\ taskList' = taskList
                /\ TurnsOf(streams', chatList') = TurnsOf(streams, chatList)
                /\ UpdateCalls' = UpdateCalls]_vars

\* what belongs to the current turn
CurrentTurnView ==
    <<LastTurn(streams, chatList), taskList, plan, loading, hasSavedSessionRef>>

\* C9: a frame that a superseded stream delivers after a newer sendMessage
\* changes nothing of the current turn: neither in the step that delivers it
\* nor when its merge runs.
C9_SupersededStreamDiscarded ==
    [][/\ \A s \in 1..Len(streams) :
             (s < Len(streams) /\ Delivers(s, AllFrames(s)))
                 => CurrentTurnView' = CurrentTurnView
       /\ (Flushes /\ \A k \in 1..Len(rafQueue) : rafQueue[k].stale)
             => CurrentTurnView' = CurrentTurnView]_vars

\* C10: the workspace is shown exactly when the task list holds a task whose
\* messageType is neither task_summary nor result.
C10_WorkspaceGate ==
    showAction <=>
        \E i \in 1..Len(taskList) :
            taskList[i].messageType \notin {"task_summary", "result"}

\* the list [result, tool_call] has opened the workspace
C10_Witness ==
    /\ Len(taskList) = 2
    /\ taskList[1].messageType = "result"
    /\ taskList[2].messageType = "tool_call"
    /\ showAction

\* the step is the operator closing the workspace
ClosesWorkspace == changeActionStatus(FALSE)

\* C11: the workspace, once shown, is hidden by no step other than the
\* operator's close action.
C11_WorkspaceOnlyClosedByOperator ==
    [][(showAction /\ ~showAction') => ClosesWorkspace]_vars

\* the calls the step issues
IssuedCalls == {i \in 1..Len(calls') : i > Len(calls)}

\* the createSession call for reqId was issued and has resolved
CreateResolved(reqId) ==
    \E j \in 1..Len(calls) :
        calls[j].op = "create" /\ calls[j].reqId = reqId /\ calls[j].done

\* C12: an updateSession call for a turn id is only issued once the
\* createSession call for that id has been issued and has resolved.
C12_UpdateOnlyWhenSaved ==
    [][\A i \in IssuedCalls :
          calls'[i].op = "update" => CreateResolved(calls'[i].reqId)]_vars

\* the ids of the tasks of a list
TaskIds(tasks) == {tasks[i].id : i \in 1..Len(tasks)}

\* C13: the updateSession call a terminal frame's merge issues carries the
\* whole chat list of the view, in order, its earlier turns as the view holds
\* them and its last entry the current turn complete (the tasks merged before,
\* the tasks of this frame, response = responseAll, not loading), with the
\* sessionId and a title.
C13_UpdateIsFullOverwrite ==
    [][(Flushes /\ Len(rafQueue) = 1 /\ IssuedCalls # {}) =>
          LET cb == rafQueue[1]
              sent == calls'[Len(calls')]
              n == Len(chatList)
          IN  /\ sent.op = "update"
              /\ sent.reqId = cb.f.reqId
              /\ Len(sent.data.chatList) = n
              /\ \A i \in 1..(n - 1) :
                    sent.data.chatList[i] = TurnOf(streams', chatList[i])
              /\ sent.data.chatList[n] = streams'[cb.s].currentChat
              /\ sent.data.chatList[n].response = cb.f.responseAll
              /\ ~sent.data.chatList[n].loading
              /\ TaskIds(streams[cb.s].currentChat.tasks)
                    \subseteq TaskIds(sent.data.chatList[n].tasks)
              /\ TaskIds(cb.f.eventData.tasks)
                    \subseteq TaskIds(sent.data.chatList[n].tasks)
              /\ sent.data.sessionId = sessionId
              /\ sent.data.chatTitle # ""]_vars

\* an update was sent from a view that holds an earlier turn: two turns in
\* order, the last one with its tasks and the full response
C13_Witness ==
    \E i \in 1..Len(calls) :
        /\ calls[i].op = "update"
        /\ Len(calls[i].data.chatList) = 2
        /\ calls[i].data.chatList[1].requestId = HistoryReq
        /\ calls[i].data.chatList[2].requestId = calls[i].reqId
        /\ calls[i].data.chatList[2].tasks # <<>>
        /\ calls[i].data.chatList[2].response = <<"H">>

\* the step is a sendMessage that opens a stream
Sends == Len(streams') > Len(streams)

C15_TaskListNeverShrinksWhileStreaming ==
    [][(loading /\ loading') => Len(taskList') >= Len(taskList)]_vars

\* C16: handleError throws no error onward.
C16_HandleErrorNeverThrows ==
    \A s \in 1..Len(streams) : ~streams[s].thrown

\* C17: once a stream has failed, its turn has stopped loading, and so has
\* the view if the turn is the current one.
C17_FailureEndsTurn ==
    \A s \in 1..Len(streams) :
        streams[s].failed =>
            /\ ~streams[s].currentChat.loading
            /\ (s = Len(streams) => ~loading)

\* the step is a createSession / updateSession call resolving
Resolves ==
    /\ Len(calls') = Len(calls)
    /\ \E i \in 1..Len(calls) : ~calls[i].done /\ calls'[i].done

\* what the view renders
Rendered == <<streams, chatList, taskList, plan, showAction, loading>>

\* C18: a createSession / updateSession call that resolves, whatever its
\* outcome, changes nothing the view renders; and whatever calls are in
\* flight or have failed, a delivered frame that is neither a heartbeat nor
\* quota-exhausted registers its merge, and a merge that runs puts the
\* frame's tasks in its turn.
C18_SyncOutcomeNeverSurfaces ==
    [][/\ Resolves => Rendered' = Rendered
       /\ \A s \in 1..Len(streams) :
             Delivers(s, {f \in AllFrames(s) :
                            f.packageType = "data" /\ f.status # "tokenUseUp"})
                 => Len(rafQueue') = Len(rafQueue) + 1
       /\ Flushes =>
             \A k \in 1..Len(rafQueue) :
                 rafQueue[k].f.eventData.present =>
                     TaskIds(rafQueue[k].f.eventData.tasks) \subseteq
                         TaskIds(streams'[rafQueue[k].s].currentChat.tasks)]_vars

\* two frames were merged while the createSession call the first of them
\* caused had not resolved
C18_Witness ==
    /\ Len(streams) = 1
    /\ streams[1].delivered = 2
    /\ rafQueue = <<>>
    /\ Len(streams[1].currentChat.tasks) = 2
    /\ \E i \in 1..Len(calls) : calls[i].op = "create" /\ ~calls[i].done

\* the step is a getSession answer handled by loadChatSession or by
\* handleViewHistoryFiles
LoadResolves ==
    \E i \in 1..Len(loads) : \E ok \in BOOLEAN :
        LoadGetSession(i, ok) \/ ViewHistoryFiles(i, ok)

\* stream s's turn is an entry of the chat list
InChatList(s, cl) == \E i \in 1..Len(cl) : cl[i].ref = s

\* C19: a session load that resolves while a turn is streaming leaves the
\* turn's entry in the chat list: it is not replaced by what the store holds.
C19_LoadKeepsLiveTurn ==
    [][LoadResolves =>
          \A s \in 1..Len(streams) :
              (streams[s].currentChat.loading /\ InChatList(s, chatList))
                  => InChatList(s, chatList')]_vars

\* the frames whose handling changes state before it returns: those that
\* trigger the create and the quota-exhausted ones
ActsAtOnce(s) ==
    {f \in AllFrames(s) :
        \/ f.status = "tokenUseUp"
        \/ ShouldSaveSession(f.reqId, streams[s].hasNavigated,
                             streams[s].propRequestId, hasSavedSessionRef)}

\* a frame of stream s carrying event data waits for the animation frame to
\* be merged
HasPendingMerge(s) ==
    \E k \in 1..Len(rafQueue) :
        rafQueue[k].s = s /\ rafQueue[k].f.eventData.present

\* C20: when a frame of a stream changes state on arrival, every earlier
\* frame of that stream has been applied: none of its merges is still
\* waiting for the animation frame.
C20_FramesAppliedInArrivalOrder ==
    [][\A s \in 1..Len(streams) :
          Delivers(s, ActsAtOnce(s)) => ~HasPendingMerge(s)]_vars

\* the frames of stream s with every optional field absent or empty
EmptyFrames(s) ==
    {f \in MergeFrames(s) :
        f.eventData \in {NoData, DataEmpty} /\ f.responseAll = EmptyText}

\* what a turn has accumulated and what the view shows of it
Accumulated == <<[s \in 1..Len(streams) |-> TurnContent(streams[s].currentChat)],
                 taskList, plan>>

\* C21: a frame whose optional fields are absent or empty changes nothing of
\* the accumulated tasks, thought, plan and response, neither when it is
\* delivered nor when its merge runs.
C21_EmptyFrameIsNoUpdate ==
    [][/\ \A s \in 1..Len(streams) :
             Delivers(s, EmptyFrames(s)) => Accumulated' = Accumulated
       /\ (Flushes /\ \A k \in 1..Len(rafQueue) :
                          rafQueue[k].f \in EmptyFrames(rafQueue[k].s))
             => Accumulated' = Accumulated]_vars

\* a turn that had accumulated a task, a plan and response text received a
\* finished frame without event data and kept all of it
C21_Witness ==
    /\ Len(streams) = 1
    /\ streams[1].delivered = 2
    /\ rafQueue = <<>>
    /\ streams[1].finishedSeen
    /\ streams[1].currentChat.loading
    /\ Len(streams[1].currentChat.tasks) = 1
    /\ streams[1].currentChat.plan = "p1"
    /\ streams[1].currentChat.response = <<"a">>

\* the ids of a task list are pairwise distinct
DistinctIds(tasks) ==
    \A i, j \in 1..Len(tasks) : tasks[i].id = tasks[j].id => i = j

\* C22: a turn holds one task per id; a merge leaves every task at its
\* position, with the payload of the frame if the frame carries its id,
\* appends the tasks with new ids in the frame's order, and the displayed
\* task list is that list.
C22_UpsertKeepsPosition ==
    [][/\ \A s \in 1..Len(streams) : DistinctIds(streams'[s].currentChat.tasks)
       /\ (Flushes /\ Len(rafQueue) = 1 /\ rafQueue[1].f.eventData.present) =>
             LET pre == streams[rafQueue[1].s].currentChat.tasks
                 post == streams'[rafQueue[1].s].currentChat.tasks
                 new == rafQueue[1].f.eventData.tasks
             IN  /\ Len(post) >= Len(pre)
                 /\ \A i \in 1..Len(pre) :
                       /\ post[i].id = pre[i].id
                       /\ \A j \in 1..Len(new) :
                             new[j].id = pre[i].id => post[i] = new[j]
                       /\ pre[i].id \notin TaskIds(new) => post[i] = pre[i]
                 /\ SubSeq(post, Len(pre) + 1, Len(post))
                       = SelectSeq(new, LAMBDA t : t.id \notin TaskIds(pre))
                 /\ taskList' = post]_vars

\* the task merged first was merged again with another payload: it kept the
\* first position and holds the later payload
C22_Witness ==
    /\ Len(streams) = 1
    /\ Len(streams[1].currentChat.tasks) = 2
    /\ streams[1].currentChat.tasks[1].id = <<"t", 1>>
    /\ streams[1].currentChat.tasks[1].payload = "v2"
    /\ streams[1].currentChat.tasks[2].id = <<"t", 2>>
    /\ taskList = streams[1].currentChat.tasks

\* C23: when handleViewHistoryFiles completes for a non-empty file listing,
\* the workspace is shown and the task list is one finished file task per
\* listed file, in listing order, with the id made of the reqId and the
\* file's index from 0, whatever tasks were streamed or stored.
C23_HistoryFilesSeedTaskList ==
    [][\A i \in 1..Len(loads) :
          (\E ok \in BOOLEAN : ViewHistoryFiles(i, ok)) =>
              /\ showAction'
              /\ Len(taskList') = Len(loads[i].files)
              /\ Len(taskList') > 0
              /\ \A k \in 1..Len(taskList') :
                    taskList'[k] = [id |-> <<loads[i].reqId, k - 1>>,
                                    messageType |-> "file",
                                    payload |-> loads[i].files[k],
                                    finish |-> TRUE]]_vars

\* the two listed files replaced the task list while a turn of the view
\* holds streamed tasks
C23_Witness ==
    /\ fromHistory
    /\ loads = <<>>
    /\ showAction
    /\ Len(taskList) = 2
    /\ taskList[1].id = <<HistoryReq, 0>>
    /\ taskList[2].id = <<HistoryReq, 1>>
    /\ taskList[2].messageType = "file"
    /\ \E s \in 1..Len(streams) : streams[s].currentChat.tasks # <<>>

\* C26: a file listing that is empty or fails clears the task list and
\* hides the workspace; a getSession answer in loadChatSession leaves the
\* task list and the workspace flag alone and is followed by the file
\* listing only when it succeeded with a session and the view was opened
\* from the history list.
C26_EmptyListingClearsWorkspace ==
    [][\A i \in 1..Len(loads) :
          /\ LoadNoFiles(i) => (taskList' = <<>> /\ ~showAction')
          /\ \A ok \in BOOLEAN :
                LoadGetSession(i, ok) =>
                    /\ taskList' = taskList
                    /\ showAction' = showAction
                    /\ (\E j \in 1..Len(loads') : loads'[j].pc = "getFileList")
                          => (/\ ok
                              /\ store[loads[i].reqId].exists
                              /\ loads[i].fromHistory
                              /\ fromHistory)]_vars

\* the listing came back empty for a view that showed tasks in its
\* workspace: both are cleared
C26_Witness ==
    /\ fromHistory
    /\ loads = <<>>
    /\ taskList = <<>>
    /\ ~showAction
    /\ \E s \in 1..Len(streams) :
          /\ ~HasCallback(s)
          /\ \E k \in 1..Len(streams[s].currentChat.tasks) :
                streams[s].currentChat.tasks[k].messageType = "tool_call"

\* the response a restored turn shows: the stored response, else the stored
\* responseAll, else the empty text
RestoredResponse(chat) ==
    IF chat.response # EmptyText THEN chat.response
    ELSE IF chat.responseAll # EmptyText THEN chat.responseAll
    ELSE EmptyText

\* C27: a getSession answer with a session makes the chat list the stored
\* turns, each not loading, without tip, with RestoredResponse as response
\* and otherwise as stored; a getSession that fails or finds no session leaves
\* the chat list and the title as they are.
C27_RestoredTurns ==
    [][\A i \in 1..Len(loads) : \A ok \in BOOLEAN :
          LoadGetSession(i, ok) =>
              LET saved == store[loads[i].reqId]
              IN  IF ok /\ saved.exists
                  THEN /\ Len(chatList') = Len(saved.chatList)
                       /\ \A k \in 1..Len(chatList') :
                             /\ chatList'[k].ref = 0
                             /\ chatList'[k].val =
                                   [saved.chatList[k] EXCEPT
                                       !.loading = FALSE,
                                       !.tip = FALSE,
                                       !.response = RestoredResponse(saved.chatList[k])]
                  ELSE chatList' = chatList /\ chatTitle' = chatTitle]_vars

\* three stored turns were restored: one with its response, one with its
\* responseAll as response, one with no text
C27_Witness ==
    /\ Len(chatList) = 3
    /\ \A k \in 1..3 :
          /\ chatList[k].ref = 0
          /\ ~chatList[k].val.loading
          /\ ~chatList[k].val.tip
    /\ chatList[1].val.response = <<"o">>
    /\ chatList[2].val.response = <<"O">>
    /\ chatList[3].val.response = EmptyText

\* C24: a sendMessage that goes through opens one stream and appends one
\* pending turn (loading, no tasks, thought or response) at the end of the
\* chat list; the initial query is sent once, with the step that marks the
\* view initialised, and never again; and no stream is opened for an empty or
\* blank message in a view that has a request id.
C24_OneStreamPerQuery ==
    [][/\ Sends =>
             LET n == Len(streams')
                 turn == streams'[n].currentChat
             IN  /\ n = Len(streams) + 1
                 /\ chatList' = Append(chatList, RefEntry(n))
                 /\ streams'[n].delivered = 0
                 /\ turn.loading
                 /\ turn.tasks = <<>>
                 /\ turn.thought = ""
                 /\ turn.response = EmptyText
       /\ hasInitialized => hasInitialized'
       /\ (~hasInitialized /\ hasInitialized') => Len(streams') = Len(streams) + 1
       /\ \A s \in 1..Len(streams') :
             streams'[s].propRequestId # NoReq
                 => streams'[s].currentChat.query \notin {"", " "}]_vars

\* the initial query and a later query have each opened a stream and added
\* a turn; the later one is pending at the end of the list
C24_Witness ==
    /\ hasInitialized
    /\ Len(streams) = 2
    /\ Len(chatList) = 2
    /\ chatList[2].ref = 2
    /\ streams[2].delivered = 0
    /\ streams[2].currentChat.loading
    /\ streams[2].propRequestId # NoReq

\* C25: the first frame of a submission that carries a reqId (no
\* createSession call for it exists yet), whatever its package type and
\* status, issues the createSession call, whose payload is the chat list of
\* that moment ending with the submission's turn, the sessionId and the title
\* (the chatTitle, else the first turn's query).
C25_FirstIdFrameCreates ==
    [][\A s \in 1..Len(streams) :
          (/\ Delivers(s, {f \in AllFrames(s) : f.reqId # NoReq})
           /\ CallCount("create", getUniqId(s)) = 0)
              => /\ Len(calls') = Len(calls) + 1
                 /\ LET sent == calls'[Len(calls')]
                    IN  /\ sent.op = "create"
                        /\ sent.reqId = getUniqId(s)
                        /\ sent.data.chatList = TurnsOf(streams', chatList)
                        /\ sent.data.chatList[Len(sent.data.chatList)]
                              = streams'[s].currentChat
                        /\ sent.data.sessionId = sessionId
                        /\ sent.data.chatTitle =
                              IF chatTitle # "" THEN chatTitle
                              ELSE FirstQuery(streams', chatList)]_vars

\* the step handles a frame: its delivery or the animation frame of merges
HandlesFrame ==
    \/ Flushes
    \/ \E s \in 1..Len(streams) : Delivers(s, AllFrames(s))

\* C28: handling a frame leaves the number of turns of the chat list and
\* all its entries but the last, and a last entry it changes becomes the
\* turn of a stream whose frame was merged; a sendMessage adds one entry at
\* the end of the list; any other change of the list is a session load
\* replacing it.
C28_FramesKeepChatListLength ==
    [][/\ HandlesFrame =>
             /\ Len(chatList') = Len(chatList)
             /\ \A i \in 1..(Len(chatList) - 1) : chatList'[i] = chatList[i]
             /\ chatList' # chatList =>
                   \E k \in 1..Len(rafQueue) :
                       chatList'[Len(chatList')] = RefEntry(rafQueue[k].s)
       /\ Sends => chatList' = Append(chatList, RefEntry(Len(streams')))
       /\ (chatList' # chatList /\ ~HandlesFrame /\ ~Sends) => LoadResolves]_vars

\* the merge of a frame of the first stream has put its turn in the place
\* of the last of two entries
C28_Witness ==
    /\ Len(streams) = 2
    /\ Len(chatList) = 2
    /\ chatList[1].ref = 1
    /\ chatList[2].ref = 1
    /\ rafQueue = <<>>

\* stream s has ended, by a failure or a close, and none of its merges waits
Ended(s) == (streams[s].failed \/ streams[s].closed) /\ ~HasCallback(s)

\* C29: once a stream has ended and its merges have run, nothing more will
\* act on its turn; by then the turn has stopped loading, and so has the
\* view if the turn is the current one.
C29_EndedStreamStopsLoading ==
    \A s \in 1..Len(streams) :
        Ended(s) =>
            /\ ~streams[s].currentChat.loading
            /\ (s = Len(streams) => ~loading)

\* the navigate calls made for reqId, before and after the step
NavigationsTo(navs, reqId) ==
    Cardinality({i \in 1..Len(navs) : navs[i] = reqId})

\* C30: a step that navigates makes one navigate call, to the reqId of the
\* createSession call it issues; at most one navigate call is made per
\* submission, and none for a submission made in a view that had a request
\* id.
C30_NavigateOncePerSubmission ==
    [][/\ navigations' # navigations =>
             /\ Len(navigations') = Len(navigations) + 1
             /\ Len(calls') = Len(calls) + 1
             /\ calls'[Len(calls')].op = "create"
             /\ calls'[Len(calls')].reqId = navigations'[Len(navigations')]
       /\ \A s \in 1..Len(streams) :
             /\ NavigationsTo(navigations', getUniqId(s)) <= 1
             /\ streams[s].propRequestId # NoReq
                   => NavigationsTo(navigations', getUniqId(s)) = 0]_vars

====
